---- MODULE Spec2Model ----
(***************************************************************************)
(* A model of ralloc's BRK abstraction (src/src/brk.rs): the global        *)
(* BRK_MUTEX with its cached program break, the BrkLock handle and its     *)
(* methods sbrk, release, current_brk and canonical_brk, run by several    *)
(* threads against an operating system that may accept or decline every    *)
(* request to move the program break (Spec, FairSpec); and of the search   *)
(* of the block pool's skip list (src/src/bk/pool.rs), run by the one      *)
(* caller that has the pool (PoolSpec).                                    *)
(***************************************************************************)
EXTENDS Integers, Sequences, FiniteSets, TLC

\* ------------------------------------------------------------------ bounds
NumThreads == 2     \* threads sharing the process image
MaxAddr == 10       \* addresses are 1..MaxAddr; 0 is the null pointer
InitBrk == 3        \* the program break at process start
MaxSize == 2        \* canonical_brk sizes are 1..MaxSize, block sizes 0..MaxSize
MaxAlign == 2       \* canonical_brk alignments are the powers of two up to it
MaxExtra == 1       \* config::extra_brk yields 0..MaxExtra
MaxDelta == 1       \* sbrk deltas are -MaxDelta..MaxDelta
MaxCalls == 2       \* calls made on BrkLock handles in one behaviour
MaxNodes == 2       \* nodes of the skip list, the head not counted
MaxLevel == 2       \* lv::Level::max(): the levels are 0..MaxLevel
MaxKey == 4         \* the pool's blocks lie in 1..MaxKey

Threads == 1..NumThreads
Addrs == 1..MaxAddr
Sizes == 1..MaxSize
Aligns == {a \in 1..MaxAlign : \E k \in 0..MaxAlign : 2^k = a}
Deltas == (0 - MaxDelta)..MaxDelta

VARIABLES
    program_break,    \* the OS's program break (the state behind syscalls::brk)
    current_brk,      \* BRK_MUTEX's BrkState.current_brk: None or Some(p)
    mutex_locked,     \* whether BRK_MUTEX is locked
    extra,            \* config::extra_brk as far as it has been evaluated
    debug_assertions, \* whether debug_assert! is compiled in, once it mattered
    aborted,          \* fail::oom() was called: the process is gone
    pc,               \* each thread's position
    call,             \* each thread's current call on its handle
    sbrk_size,        \* BrkLock::sbrk's argument `size`
    expected_brk,     \* BrkLock::sbrk's local `expected_brk`
    old_brk,          \* BrkLock::sbrk's local `old_brk`
    sbrk_res,         \* BrkLock::sbrk's result as its caller sees it
    ret,              \* what the last call returned to the handle's user
    entry,            \* the breaks when the current call began
    declined,         \* whether the OS declined the call's break request
    blocks,           \* the triples canonical_brk has returned, in order
    ncalls,           \* calls begun so far
    requested,        \* whether the call has asked the OS to move the break
    sbrk_log,         \* the successful sbrk calls with a positive delta, in order
    queries,          \* how often the OS was asked for the break (brk(null))
    pool,             \* Pool: the head's and the nodes' blocks and shortcuts
    pool_at_call,     \* the pool as it was when the current search began
    search_pc,        \* where the search is
    searcher,         \* the method called and its searcher's needle
    iter,             \* search_with's local `iter`: a node and a level
    seek,             \* search_with's local `seek`
    written,          \* the levels whose back_look cell has been written
    search_ret        \* what the search returned

brk_vars == <<program_break, current_brk, mutex_locked, extra, debug_assertions,
          aborted, pc, call, sbrk_size, expected_brk, old_brk, sbrk_res, ret,
          entry, declined, blocks, ncalls, requested, sbrk_log, queries>>

pool_vars == <<pool, pool_at_call, search_pc, searcher, iter, seek, written,
               search_ret>>

vars == <<brk_vars, pool_vars>>

\* ------------------------------------------------------------ Option, Block
None == <<>>
Some(p) == <<p>>

Block(ptr, size) == [ptr |-> ptr, size |-> size]
NoBlock == Block(0, 0)

\* Block::from_raw_parts
from_raw_parts(ptr, size) == Block(ptr, size)

\* Block::empty_right: the empty block right after the block
empty_right(b) == Block(b.ptr + b.size, 0)

\* Block::aligned_to
aligned_to(b, align) == b.ptr % align = 0

\* Block::align: the misaligned head and the aligned remainder, or None when
\* the block holds no aligned address
align_block(b, align) ==
    LET aligner == (align - (b.ptr % align)) % align
    IN  IF aligner < b.size
        THEN Some(<<Block(b.ptr, aligner), Block(b.ptr + aligner, b.size - aligner)>>)
        ELSE None

\* Block::split: two blocks that meet at pos
split(b, pos) == <<Block(b.ptr, pos), Block(b.ptr + pos, b.size - pos)>>

\* a block's end address
BlockEnd(b) == b.ptr + b.size

\* config::extra_brk is a pure function of the size: any one. Its value for
\* a size is drawn when it is first asked for and stays from then on.
extra_brk(size) == IF extra[size] = <<>> THEN 0..MaxExtra ELSE {extra[size][1]}

\* debug_assert!(cond): whether it panics. The build has debug assertions or has
\* none; which one it is is settled the first time an assertion fails to hold.
debug_assert_panics(cond) ==
    IF cond THEN {FALSE}
    ELSE IF debug_assertions = <<>> THEN BOOLEAN ELSE {debug_assertions[1]}

\* ------------------------------------------------------------------- shim
\* syscalls::brk(ptr): what the OS may do with a request to set the break to
\* ptr. It returns the previous break; a declined request leaves the break
\* where it was. The null pointer is no address of the data segment, so a
\* request for it is always declined: that is the query of current_brk().
syscalls_brk(ptr) ==
    {[brk |-> program_break, ret |-> program_break]} \cup
    (IF ptr \in Addrs THEN {[brk |-> ptr, ret |-> program_break]} ELSE {})

\* the free function current_brk(): brk(null)
current_brk_query == (CHOOSE o \in syscalls_brk(0) : TRUE).ret

\* BrkLock::current_brk: the cached break, else the OS's, which it then caches
BrkLock_current_brk == IF current_brk # None THEN current_brk[1] ELSE current_brk_query

\* how many requests to the OS one call of BrkLock::current_brk makes: the
\* query brk(null), and only when the cache is empty
current_brk_queries == IF current_brk = None THEN 1 ELSE 0

\* --------------------------------------------------------------- records
NoCall == [op |-> "none", size |-> 0, align |-> 0, block |-> NoBlock]
NoRet == [op |-> "none", ok |-> FALSE, ptr |-> 0,
          pre |-> NoBlock, res |-> NoBlock, exc |-> NoBlock]
NoRes == [ok |-> FALSE, ptr |-> 0]
NoEntry == [os |-> 0, cur |-> 0, cached |-> FALSE]

BrkInit ==
    /\ program_break = InitBrk
    /\ current_brk = None
    /\ mutex_locked = FALSE
    /\ extra = [s \in Sizes |-> None]
    /\ debug_assertions = None
    /\ aborted = FALSE
    /\ pc = [t \in Threads |-> "idle"]
    /\ call = [t \in Threads |-> NoCall]
    /\ sbrk_size = [t \in Threads |-> 0]
    /\ expected_brk = [t \in Threads |-> 0]
    /\ old_brk = [t \in Threads |-> 0]
    /\ sbrk_res = [t \in Threads |-> NoRes]
    /\ ret = [t \in Threads |-> NoRet]
    /\ entry = [t \in Threads |-> NoEntry]
    /\ declined = [t \in Threads |-> FALSE]
    /\ blocks = <<>>
    /\ ncalls = 0
    /\ requested = [t \in Threads |-> FALSE]
    /\ sbrk_log = <<>>
    /\ queries = 0

\* -------------------------------------------------------- Pool, Node, Seek
Levels == 0..MaxLevel

\* a position in the list: the head, a node of the arena, or no node
HeadNode == 0
NIL == 0 - 1

\* a cell of `seek` that mem::uninitialized() left as it was
Uninit == 0 - 2

\* a Node: its payload and one shortcut per level
Node(block, shortcuts) == [block |-> block, shortcuts |-> shortcuts]

\* Pool: the head's shortcuts and the nodes of the arena in address order
EmptyPool == [head |-> [l \in Levels |-> NIL], nodes |-> <<>>]

NoSearcher == [api |-> "none", needle |-> NoBlock]
NoIter == [node |-> HeadNode, lv |-> 0]
NoSeek == [node |-> Uninit, back_look |-> [l \in Levels |-> Uninit]]

PoolIdle ==
    /\ pool_at_call = EmptyPool
    /\ search_pc = "idle"
    /\ searcher = NoSearcher
    /\ iter = NoIter
    /\ seek = NoSeek
    /\ written = {}
    /\ search_ret = "none"

\* Spec runs the BRK abstraction; the pool stays empty and idle
Init ==
    /\ BrkInit
    /\ pool = EmptyPool
    /\ PoolIdle

\* ------------------------------------------------------------- the handle
\* lock() as it would be if BRK_MUTEX.lock() did not wait for the mutex
lock_unguarded(t) ==
    /\ pc[t] = "idle"
    /\ mutex_locked' = TRUE
    /\ pc' = [pc EXCEPT ![t] = "held"]
    /\ UNCHANGED <<program_break, current_brk, extra, debug_assertions, aborted,
                   call, sbrk_size, expected_brk, old_brk, sbrk_res, ret, entry,
                   declined, blocks, ncalls,
                   requested, sbrk_log, queries, pool_vars>>

\* lock(): BRK_MUTEX.lock() waits until the mutex is free and takes it
lock(t) ==
    /\ pc[t] = "idle"
    /\ ~mutex_locked
    /\ mutex_locked' = TRUE
    /\ pc' = [pc EXCEPT ![t] = "held"]
    /\ UNCHANGED <<program_break, current_brk, extra, debug_assertions, aborted,
                   call, sbrk_size, expected_brk, old_brk, sbrk_res, ret, entry,
                   declined, blocks, ncalls,
                   requested, sbrk_log, queries, pool_vars>>

\* the handle's end as it would be if its MutexGuard did not unlock BRK_MUTEX
drop_locked(t) ==
    /\ pc[t] = "held"
    /\ mutex_locked' = mutex_locked
    /\ pc' = [pc EXCEPT ![t] = "idle"]
    /\ call' = [call EXCEPT ![t] = NoCall]
    /\ ret' = [ret EXCEPT ![t] = NoRet]
    /\ entry' = [entry EXCEPT ![t] = NoEntry]
    /\ declined' = [declined EXCEPT ![t] = FALSE]
    /\ requested' = [requested EXCEPT ![t] = FALSE]
    /\ UNCHANGED <<program_break, current_brk, extra, debug_assertions, aborted,
                   sbrk_size, expected_brk, old_brk, sbrk_res, blocks, ncalls,
                   sbrk_log, queries, pool_vars>>

\* the BrkLock handle goes out of scope: its MutexGuard unlocks BRK_MUTEX
drop(t) ==
    /\ pc[t] = "held"
    /\ mutex_locked' = FALSE
    /\ pc' = [pc EXCEPT ![t] = "idle"]
    /\ call' = [call EXCEPT ![t] = NoCall]
    /\ ret' = [ret EXCEPT ![t] = NoRet]
    /\ entry' = [entry EXCEPT ![t] = NoEntry]
    /\ declined' = [declined EXCEPT ![t] = FALSE]
    /\ requested' = [requested EXCEPT ![t] = FALSE]
    /\ UNCHANGED <<program_break, current_brk, extra, debug_assertions, aborted,
                   sbrk_size, expected_brk, old_brk, sbrk_res, blocks, ncalls,
                   sbrk_log, queries, pool_vars>>

\* what every call on the handle sets up: the ghost snapshot and the count
Begin(t, c, next) ==
    /\ pc[t] = "held"
    /\ ncalls < MaxCalls
    /\ ncalls' = ncalls + 1
    /\ call' = [call EXCEPT ![t] = c]
    /\ ret' = [ret EXCEPT ![t] = NoRet]
    /\ entry' = [entry EXCEPT ![t] = [os |-> program_break,
                                      cur |-> BrkLock_current_brk,
                                      cached |-> current_brk # None]]
    /\ declined' = [declined EXCEPT ![t] = FALSE]
    /\ requested' = [requested EXCEPT ![t] = FALSE]
    /\ pc' = [pc EXCEPT ![t] = next]

\* a panic unwinds the thread: the handle is dropped on the way
Panic(t) ==
    /\ pc' = [pc EXCEPT ![t] = "panicked"]
    /\ mutex_locked' = FALSE

\* ------------------------------------------------------------ BrkLock::sbrk
\* a user of the handle calls sbrk(size)
call_sbrk(t, size) ==
    /\ BrkLock_current_brk + size \in Addrs
    /\ Begin(t, [NoCall EXCEPT !.op = "sbrk", !.size = size], "sbrk_expected")
    /\ sbrk_size' = [sbrk_size EXCEPT ![t] = size]
    /\ UNCHANGED <<program_break, current_brk, mutex_locked, extra,
                   debug_assertions, aborted, expected_brk, old_brk, sbrk_res,
                   blocks,
                   sbrk_log, queries, pool_vars>>

\* sbrk's first step as it would be if current_brk() did not fill the cache
sbrk_expected_uncached(t) ==
    /\ pc[t] = "sbrk_expected"
    /\ expected_brk' = [expected_brk EXCEPT ![t] = BrkLock_current_brk + sbrk_size[t]]
    /\ current_brk' = current_brk
    /\ queries' = queries + current_brk_queries
    /\ pc' = [pc EXCEPT ![t] = "sbrk_syscall"]
    /\ UNCHANGED <<program_break, mutex_locked, extra, debug_assertions, aborted,
                   call, sbrk_size, old_brk, sbrk_res, ret, entry, declined,
                   blocks, ncalls,
                   requested, sbrk_log, pool_vars>>


\* let expected_brk = self.current_brk().offset(size);
sbrk_expected(t) ==
    /\ pc[t] = "sbrk_expected"
    /\ expected_brk' = [expected_brk EXCEPT ![t] = BrkLock_current_brk + sbrk_size[t]]
    /\ current_brk' = Some(BrkLock_current_brk)
    /\ queries' = queries + current_brk_queries
    /\ pc' = [pc EXCEPT ![t] = "sbrk_syscall"]
    /\ UNCHANGED <<program_break, mutex_locked, extra, debug_assertions, aborted,
                   call, sbrk_size, old_brk, sbrk_res, ret, entry, declined,
                   blocks, ncalls,
                   requested, sbrk_log, pool_vars>>

\* let old_brk = Pointer::new(syscalls::brk(*expected_brk ...));
sbrk_syscall(t) ==
    /\ pc[t] = "sbrk_syscall"
    /\ \E o \in syscalls_brk(expected_brk[t]) :
          /\ program_break' = o.brk
          /\ old_brk' = [old_brk EXCEPT ![t] = o.ret]
          /\ declined' = [declined EXCEPT ![t] = (o.brk # expected_brk[t])]
    /\ requested' = [requested EXCEPT ![t] = TRUE]
    /\ pc' = [pc EXCEPT ![t] = "sbrk_check"]
    /\ UNCHANGED <<current_brk, mutex_locked, extra, debug_assertions, aborted,
                   call, sbrk_size, expected_brk, sbrk_res, ret, entry, blocks,
                   ncalls,
                   sbrk_log, queries, pool_vars>>

\* if expected_brk == old_brk && size != 0 { Err(()) } else { ... Ok(old_brk) }
sbrk_failed(expected, old, size) == expected = old /\ size # 0

\* where sbrk returns to
AfterSbrk(t) ==
    CASE call[t].op = "canonical_brk" -> "canonical_split"
      [] call[t].op = "release" -> "release_ret"
      [] call[t].op = "extern_sbrk" -> "extern_unwrap"
      [] OTHER -> "held"

sbrk_check(t) ==
    /\ pc[t] = "sbrk_check"
    /\ LET failed == sbrk_failed(expected_brk[t], old_brk[t], sbrk_size[t])
           res == IF failed THEN NoRes ELSE [ok |-> TRUE, ptr |-> old_brk[t]]
       IN  /\ current_brk' = IF failed THEN current_brk ELSE Some(expected_brk[t])
           /\ sbrk_res' = [sbrk_res EXCEPT ![t] =
                             IF call[t].op = "sbrk" THEN NoRes ELSE res]
           /\ ret' = [ret EXCEPT ![t] =
                        IF call[t].op = "sbrk"
                        THEN [NoRet EXCEPT !.op = "sbrk", !.ok = res.ok, !.ptr = res.ptr]
                        ELSE NoRet]
    /\ sbrk_log' =
          IF /\ call[t].op = "sbrk" /\ sbrk_size[t] > 0
             /\ ~sbrk_failed(expected_brk[t], old_brk[t], sbrk_size[t])
          THEN Append(sbrk_log, [n |-> ncalls, ptr |-> old_brk[t]])
          ELSE sbrk_log
    /\ pc' = [pc EXCEPT ![t] = AfterSbrk(t)]
    /\ sbrk_size' = [sbrk_size EXCEPT ![t] = 0]
    /\ expected_brk' = [expected_brk EXCEPT ![t] = 0]
    /\ old_brk' = [old_brk EXCEPT ![t] = 0]
    /\ UNCHANGED <<program_break, mutex_locked, extra, debug_assertions, aborted,
                   call, entry, declined, blocks, ncalls,
                   requested, queries, pool_vars>>

\* ---------------------------------------------------- BrkLock::canonical_brk
\* let brk_size = size + config::extra_brk(size) + align; ... self.sbrk(brk_size)
call_canonical_brk(t, size, align) ==
    \E e \in extra_brk(size) :
        LET brk_size == size + e + align
        IN  /\ BrkLock_current_brk + brk_size \in Addrs
            /\ Begin(t, [NoCall EXCEPT !.op = "canonical_brk", !.size = size,
                                       !.align = align], "sbrk_expected")
            /\ extra' = [extra EXCEPT ![size] = Some(e)]
            /\ sbrk_size' = [sbrk_size EXCEPT ![t] = brk_size]
            /\ UNCHANGED <<program_break, current_brk, mutex_locked,
                           debug_assertions, aborted, expected_brk, old_brk,
                           sbrk_res, blocks,
                   sbrk_log, queries, pool_vars>>

\* canonical_blocks as it would be if the raw block were not aligned to `align`
canonical_blocks_unaligned(ptr, size, align, brk_size) ==
    LET aligned == align_block(from_raw_parts(ptr, brk_size), 1)
    IN  IF aligned = None THEN None
        ELSE LET alignment_block == aligned[1][1]
                 rest == aligned[1][2]
             IN  IF size > rest.size THEN None
                 ELSE Some(<<alignment_block, split(rest, size)[1],
                             split(rest, size)[2]>>)

\* Block::from_raw_parts(ptr, brk_size).align(align).unwrap(), rest.split(size):
\* the triple (alignment_block, res, excessive), or None where the unwrap or
\* split's bound assertion panics
canonical_blocks(ptr, size, align, brk_size) ==
    LET aligned == align_block(from_raw_parts(ptr, brk_size), align)
    IN  IF aligned = None THEN None
        ELSE LET alignment_block == aligned[1][1]
                 rest == aligned[1][2]
             IN  IF size > rest.size THEN None
                 ELSE Some(<<alignment_block, split(rest, size)[1],
                             split(rest, size)[2]>>)

\* debug_assert!(res.aligned_to(align)); debug_assert!(sizes add up to brk_size)
canonical_asserts(triple, align, brk_size) ==
    /\ aligned_to(triple[2], align)
    /\ triple[2].size + triple[1].size + triple[3].size = brk_size

\* the rest of canonical_brk once sbrk has returned
canonical_split(t) ==
    /\ pc[t] = "canonical_split"
    /\ sbrk_res' = [sbrk_res EXCEPT ![t] = NoRes]
    /\ LET c == call[t]
           brk_size == c.size + extra[c.size][1] + c.align
           triple == canonical_blocks(sbrk_res[t].ptr, c.size, c.align, brk_size)
       IN  IF ~sbrk_res[t].ok
           THEN \* unwrap_or_else(|()| fail::oom()): no return, and the process
                \* and with it every thread ends
                /\ aborted' = TRUE
                /\ pc' = [u \in Threads |-> IF u = t THEN "oom" ELSE "aborted"]
                /\ UNCHANGED <<mutex_locked, debug_assertions, ret, blocks>>
           ELSE IF triple = None
           THEN /\ Panic(t)
                /\ UNCHANGED <<aborted, debug_assertions, ret, blocks>>
           ELSE \E panics \in debug_assert_panics(
                                 canonical_asserts(triple[1], c.align, brk_size)) :
                  IF panics
                  THEN /\ Panic(t)
                       /\ debug_assertions' = Some(TRUE)
                       /\ UNCHANGED <<aborted, ret, blocks>>
                  ELSE /\ ret' = [ret EXCEPT ![t] =
                                    [NoRet EXCEPT !.op = "canonical_brk", !.ok = TRUE,
                                                  !.pre = triple[1][1],
                                                  !.res = triple[1][2],
                                                  !.exc = triple[1][3]]]
                       /\ blocks' = Append(blocks, [t |-> t, pre |-> triple[1][1],
                                                    res |-> triple[1][2],
                                                    exc |-> triple[1][3]])
                       /\ pc' = [pc EXCEPT ![t] = "held"]
                       /\ debug_assertions' =
                             IF canonical_asserts(triple[1], c.align, brk_size)
                             THEN debug_assertions ELSE Some(FALSE)
                       /\ UNCHANGED <<aborted, mutex_locked>>
    /\ UNCHANGED <<program_break, current_brk, extra, call, sbrk_size,
                   expected_brk, old_brk, entry, declined, ncalls,
                   requested, sbrk_log, queries, pool_vars>>

\* --------------------------------------------------------- BrkLock::release
\* the blocks a caller may hand to release: those canonical_brk returned, and
\* the small blocks that end at the cached break or at the OS's break
Returned == UNION {{blocks[i].pre, blocks[i].res, blocks[i].exc} : i \in DOMAIN blocks}
Releasable == Returned \cup
    {b \in {Block(p, s) : p \in Addrs, s \in 0..MaxSize} :
        BlockEnd(b) \in {BrkLock_current_brk, program_break}}

call_release(t, block) ==
    /\ Begin(t, [NoCall EXCEPT !.op = "release", !.block = block], "release_check")
    /\ UNCHANGED <<program_break, current_brk, mutex_locked, extra,
                   debug_assertions, aborted, sbrk_size, expected_brk, old_brk,
                   sbrk_res, blocks,
                   sbrk_log, queries, pool_vars>>

\* release as it would be without the test that the block ends at the break
release_check_unchecked(t) ==
    /\ pc[t] = "release_check"
    /\ current_brk' = Some(BrkLock_current_brk)
    /\ queries' = queries + current_brk_queries
    /\ IF TRUE
       THEN /\ sbrk_size' = [sbrk_size EXCEPT ![t] = 0 - call[t].block.size]
            /\ pc' = [pc EXCEPT ![t] = "sbrk_expected"]
            /\ UNCHANGED ret
       ELSE /\ ret' = [ret EXCEPT ![t] =
                         [NoRet EXCEPT !.op = "release", !.ok = FALSE,
                                       !.res = call[t].block]]
            /\ pc' = [pc EXCEPT ![t] = "held"]
            /\ UNCHANGED sbrk_size
    /\ UNCHANGED <<program_break, mutex_locked, extra, debug_assertions, aborted,
                   call, expected_brk, old_brk, sbrk_res, entry, declined,
                   blocks, ncalls,
                   requested, sbrk_log, pool_vars>>


\* if self.current_brk() == Pointer::from(block.empty_right()) { self.sbrk(-size) }
\* else { Err(block) }
release_check(t) ==
    /\ pc[t] = "release_check"
    /\ current_brk' = Some(BrkLock_current_brk)
    /\ queries' = queries + current_brk_queries
    /\ IF BrkLock_current_brk = empty_right(call[t].block).ptr
       THEN /\ sbrk_size' = [sbrk_size EXCEPT ![t] = 0 - call[t].block.size]
            /\ pc' = [pc EXCEPT ![t] = "sbrk_expected"]
            /\ UNCHANGED ret
       ELSE /\ ret' = [ret EXCEPT ![t] =
                         [NoRet EXCEPT !.op = "release", !.ok = FALSE,
                                       !.res = call[t].block]]
            /\ pc' = [pc EXCEPT ![t] = "held"]
            /\ UNCHANGED sbrk_size
    /\ UNCHANGED <<program_break, mutex_locked, extra, debug_assertions, aborted,
                   call, expected_brk, old_brk, sbrk_res, entry, declined,
                   blocks, ncalls,
                   requested, sbrk_log, pool_vars>>

\* debug_assert!(res.is_ok(), ...); Ok(())
release_ret(t) ==
    /\ pc[t] = "release_ret"
    /\ sbrk_res' = [sbrk_res EXCEPT ![t] = NoRes]
    /\ \E panics \in debug_assert_panics(sbrk_res[t].ok) :
          IF panics
          THEN /\ Panic(t)
               /\ debug_assertions' = Some(TRUE)
               /\ UNCHANGED ret
          ELSE /\ ret' = [ret EXCEPT ![t] = [NoRet EXCEPT !.op = "release", !.ok = TRUE]]
               /\ pc' = [pc EXCEPT ![t] = "held"]
               /\ debug_assertions' =
                     IF sbrk_res[t].ok THEN debug_assertions ELSE Some(FALSE)
               /\ UNCHANGED mutex_locked
    /\ UNCHANGED <<program_break, current_brk, extra, aborted, call, sbrk_size,
                   expected_brk, old_brk, entry, declined, blocks, ncalls,
                   requested, sbrk_log, queries, pool_vars>>

\* ------------------------------------------------- pub unsafe extern fn sbrk
\* the maximum pointer, !0: all bits set
MaxPointer == 0 - 1

\* sbrk(size) of the public symbol begins: lock() takes BRK_MUTEX for a handle
\* that lives until the statement ends, and BrkLock::sbrk is called on it
call_extern_sbrk(t, size) ==
    /\ pc[t] = "idle"
    /\ ~mutex_locked
    /\ ncalls < MaxCalls
    /\ BrkLock_current_brk + size \in Addrs
    /\ mutex_locked' = TRUE
    /\ ncalls' = ncalls + 1
    /\ call' = [call EXCEPT ![t] = [NoCall EXCEPT !.op = "extern_sbrk", !.size = size]]
    /\ ret' = [ret EXCEPT ![t] = NoRet]
    /\ entry' = [entry EXCEPT ![t] = [os |-> program_break,
                                      cur |-> BrkLock_current_brk,
                                      cached |-> current_brk # None]]
    /\ declined' = [declined EXCEPT ![t] = FALSE]
    /\ requested' = [requested EXCEPT ![t] = FALSE]
    /\ sbrk_size' = [sbrk_size EXCEPT ![t] = size]
    /\ pc' = [pc EXCEPT ![t] = "sbrk_expected"]
    /\ UNCHANGED <<program_break, current_brk, extra, debug_assertions, aborted,
                   expected_brk, old_brk, sbrk_res, blocks, sbrk_log, queries, pool_vars>>

\* .unwrap_or_else(|()| Pointer::new(!0 as *mut u8)), dereferenced
unwrap_or_max(res) == IF res.ok THEN res.ptr ELSE MaxPointer

\* the value of the public sbrk is there; the handle is still alive
extern_unwrap(t) ==
    /\ pc[t] = "extern_unwrap"
    /\ ret' = [ret EXCEPT ![t] = [NoRet EXCEPT !.op = "extern_sbrk",
                                               !.ok = sbrk_res[t].ok,
                                               !.ptr = unwrap_or_max(sbrk_res[t])]]
    /\ sbrk_res' = [sbrk_res EXCEPT ![t] = NoRes]
    /\ pc' = [pc EXCEPT ![t] = "extern_done"]
    /\ UNCHANGED <<program_break, current_brk, mutex_locked, extra,
                   debug_assertions, aborted, call, sbrk_size, expected_brk,
                   old_brk, entry, declined, blocks, ncalls, requested,
                   sbrk_log, queries, pool_vars>>

\* the statement ends: the temporary handle is dropped and the value returned
extern_return(t) ==
    /\ pc[t] = "extern_done"
    /\ mutex_locked' = FALSE
    /\ pc' = [pc EXCEPT ![t] = "idle"]
    /\ call' = [call EXCEPT ![t] = NoCall]
    /\ ret' = [ret EXCEPT ![t] = NoRet]
    /\ entry' = [entry EXCEPT ![t] = NoEntry]
    /\ declined' = [declined EXCEPT ![t] = FALSE]
    /\ requested' = [requested EXCEPT ![t] = FALSE]
    /\ UNCHANGED <<program_break, current_brk, extra, debug_assertions, aborted,
                   sbrk_size, expected_brk, old_brk, sbrk_res, blocks, ncalls,
                   sbrk_log, queries, pool_vars>>

\* ------------------------------------------------------------- the skip list
\* the blocks a pool can hold: in 1..MaxKey, not empty
PoolBlocks == {b \in [ptr : 1..MaxKey, size : Sizes] : BlockEnd(b) <= MaxKey + 1}

\* towers: a block and the number of levels its node is linked in
Towers == [block : PoolBlocks, height : 1..(MaxLevel + 1)]

\* distinct, non-overlapping address ranges in strictly increasing order
Ordered(ts) ==
    \A i \in DOMAIN ts : \A j \in DOMAIN ts :
        i < j => BlockEnd(ts[i].block) <= ts[j].block.ptr

TowerSeqs == {ts \in UNION {[1..n -> Towers] : n \in 0..MaxNodes} : Ordered(ts)}

\* the next node after position i that is linked in level l
NextAt(ts, i, l) ==
    LET later == {j \in (i + 1)..Len(ts) : ts[j].height > l}
    IN IF later = {} THEN NIL
       ELSE CHOOSE j \in later : \A k \in later : j <= k

\* the list that inserting the towers builds: level l links, in order, the
\* nodes of height above l, so that every level is a subsequence of the
\* level below it
Linked(ts) ==
    [head |-> [l \in Levels |-> NextAt(ts, 0, l)],
     nodes |-> [i \in 1..Len(ts) |->
                  Node(ts[i].block,
                       [l \in Levels |-> IF ts[i].height > l
                                         THEN NextAt(ts, i, l) ELSE NIL])]]

\* the shortcut of position p at level l in pool P
Shortcut(P, p, l) == IF p = HeadNode THEN P.head[l] ELSE P.nodes[p].shortcuts[l]

\* the nodes linked in level l
RECURSIVE ReachFrom(_, _, _)
ReachFrom(P, p, l) ==
    LET q == Shortcut(P, p, l)
    IN IF q = NIL THEN {} ELSE {q} \cup ReachFrom(P, q, l)

\* the last position of level l before node n
Pred(P, n, l) ==
    LET before == {HeadNode} \cup {j \in ReachFrom(P, HeadNode, l) : j < n}
    IN CHOOSE j \in before : \A k \in before : k <= j

\* ------------------------------------------------------------ the searcher
\* search::BlockSearcher: the exact-address searcher
refine(s, x) == x.block.ptr >= s.needle.ptr
is_match(s, x) == x.block.ptr = s.needle.ptr

\* the shortcut iterator's find: follow the shortcuts of level l from p up to
\* the first one that leads to a node to refine at; the iterator is left on
\* the node that shortcut starts from
RECURSIVE iter_find(_, _, _, _)
iter_find(P, s, p, l) ==
    LET q == Shortcut(P, p, l)
    IN IF q = NIL THEN [some |-> FALSE, node |-> p]
       ELSE IF refine(s, P.nodes[q]) THEN [some |-> TRUE, node |-> p]
       ELSE iter_find(P, s, q, l)

\* node.iter().find: the first match from node n on, node by node
RECURSIVE node_find(_, _, _)
node_find(P, s, n) ==
    IF n = NIL THEN NIL
    ELSE IF is_match(s, P.nodes[n]) THEN n
    ELSE node_find(P, s, P.nodes[n].shortcuts[0])

\* ------------------------------------------- Pool::search, Pool::search_with
\* search (api "search") or search_with (api "search_with") is called: seek
\* is uninitialized, iter starts at the head in the highest level
call_search(api, needle) ==
    /\ search_pc = "idle"
    /\ search_pc' = "loop"
    /\ searcher' = [api |-> api, needle |-> needle]
    /\ seek' = NoSeek
    /\ written' = {}
    /\ iter' = [node |-> HeadNode, lv |-> MaxLevel]
    /\ pool_at_call' = pool
    /\ search_ret' = "none"
    /\ UNCHANGED <<pool, brk_vars>>

\* a variant of the loop that makes the head's shortcut of the level just
\* left lead to the node it refined at
search_with_loop_relinking ==
    /\ search_pc = "loop"
    /\ LET found == iter_find(pool, searcher, iter.node, iter.lv)
           lv == iter.lv
       IN IF found.some
          THEN /\ iter' = [node |-> found.node, lv |-> lv - 1]
               /\ seek' = [seek EXCEPT !.back_look[lv] = found.node]
               /\ written' = written \cup {lv}
               /\ search_pc' = IF lv = 1 THEN "bottom" ELSE "loop"
               /\ pool' = [pool EXCEPT !.head[lv] = Shortcut(pool, found.node, lv)]
          ELSE /\ iter' = [iter EXCEPT !.node = found.node]
               /\ search_pc' = "bottom"
               /\ UNCHANGED <<seek, written, pool>>
    /\ UNCHANGED <<pool_at_call, searcher, search_ret, brk_vars>>

\* one turn of the while loop: find the shortcut to refine at; with one,
\* go a level down, write the back look of the level left, and leave the
\* loop when that level was 1; with none, leave the loop
search_with_loop ==
    /\ search_pc = "loop"
    /\ LET found == iter_find(pool, searcher, iter.node, iter.lv)
           lv == iter.lv
       IN IF found.some
          THEN /\ iter' = [node |-> found.node, lv |-> lv - 1]
               /\ seek' = [seek EXCEPT !.back_look[lv] = found.node]
               /\ written' = written \cup {lv}
               /\ search_pc' = IF lv = 1 THEN "bottom" ELSE "loop"
          ELSE /\ iter' = [iter EXCEPT !.node = found.node]
               /\ search_pc' = "bottom"
               /\ UNCHANGED <<seek, written>>
    /\ UNCHANGED <<pool, pool_at_call, searcher, search_ret, brk_vars>>

\* what the caller can read in `seek`: a cell that was never written holds
\* whatever the memory held
Readable(s) ==
    {r \in [node : {s.node}, back_look : [Levels -> NIL..Len(pool.nodes)]] :
        \A l \in Levels : s.back_look[l] # Uninit => r.back_look[l] = s.back_look[l]}

\* seek.check(): with debug assertions, it can fail on a back look cell that
\* does not hold the predecessor of the found node
seek_check_panics(s) ==
    IF \A l \in Levels : s.back_look[l] = Pred(pool, s.node, l)
    THEN {FALSE} ELSE BOOLEAN

\* where search_with's result goes: to search's unwrap, or to the caller
Result(r) ==
    /\ search_ret' = r
    /\ search_pc' = IF r = "panic" THEN "panicked"
                    ELSE IF searcher.api = "search" THEN "unwrap" ELSE "done"

\* after the loop: the next shortcut of iter, the first match among the nodes
\* from its node on, seek.check() and Ok(seek); Err(()) without a shortcut or
\* without a match
search_with_bottom ==
    /\ search_pc = "bottom"
    /\ LET shortcut == Shortcut(pool, iter.node, iter.lv)
           found == node_find(pool, searcher, shortcut)
       IN IF shortcut # NIL /\ found # NIL
          THEN \E s \in Readable([seek EXCEPT !.node = found]) :
               \E panics \in seek_check_panics(s) :
                   /\ seek' = s
                   /\ Result(IF panics THEN "panic" ELSE "Ok")
          ELSE /\ Result("Err")
               /\ UNCHANGED seek
    /\ UNCHANGED <<pool, pool_at_call, searcher, iter, written, brk_vars>>

\* search unwraps search_with's result: Err(()) is a panic
search_unwrap ==
    /\ search_pc = "unwrap"
    /\ IF search_ret = "Ok"
       THEN search_pc' = "done" /\ UNCHANGED search_ret
       ELSE search_pc' = "panicked" /\ search_ret' = "panic"
    /\ UNCHANGED <<pool, pool_at_call, searcher, iter, seek, written, brk_vars>>

\* the caller has the result and drops it
search_return ==
    /\ search_pc = "done"
    /\ search_pc' = "idle"
    /\ pool_at_call' = EmptyPool
    /\ searcher' = NoSearcher
    /\ iter' = NoIter
    /\ seek' = NoSeek
    /\ written' = {}
    /\ search_ret' = "none"
    /\ UNCHANGED <<pool, brk_vars>>

\* ------------------------------------------------------------- properties
\* thread t has a BrkLock handle
Holding(t) == pc[t] \notin {"idle", "panicked", "aborted"}

\* thread t is between the steps of one break adjustment
Adjusting(t) == pc[t] \in {"release_check", "sbrk_expected", "sbrk_syscall",
                           "sbrk_check", "canonical_split", "release_ret",
                           "extern_unwrap"}

\* call `op` of thread t has returned to the handle's user
Back(t, op) == pc[t] = "held" /\ ret[t].op = op

\* the oversized request of thread t's canonical_brk call
BrkSize(t) == call[t].size + extra[call[t].size][1] + call[t].align

\* no address belongs to both blocks
Disjoint(a, b) == a.size = 0 \/ b.size = 0 \/ BlockEnd(a) <= b.ptr \/ BlockEnd(b) <= a.ptr

\* every call begun so far is a canonical_brk call that returned or is under way
OnlyCanonical ==
    ncalls = Len(blocks) + Cardinality({t \in Threads :
                 call[t].op = "canonical_brk" /\ Adjusting(t)})

\* C1: at most one thread holds a BrkLock handle, so the steps of a break
\* adjustment (which only a holder takes) of two threads never interleave:
\* while one thread is between two steps no other thread has a handle.
C1_OneHandle ==
    \A t1, t2 \in Threads : (Holding(t1) /\ Holding(t2)) => t1 = t2

\* C1 witness: a thread is between the syscall and the cache update while a
\* thread whose canonical_brk returned earlier is out of the lock
C1_Witness ==
    \E t1, t2 \in Threads :
        /\ t1 # t2
        /\ pc[t1] = "sbrk_check" /\ pc[t2] = "idle"
        /\ Len(blocks) > 0 /\ blocks[1].t = t2

\* C2: the result blocks that canonical_brk returned to different threads,
\* when canonical_brk is all that was called, are pairwise disjoint.
C2_ResultsDisjoint ==
    OnlyCanonical =>
        \A i, j \in DOMAIN blocks :
            (i # j /\ blocks[i].t # blocks[j].t) =>
                Disjoint(blocks[i].res, blocks[j].res)

\* C3: when the OS declines the request of sbrk(delta), delta # 0, sbrk returns
\* a failure and the cached break is what it was before the call.
C3_DeclinedSbrkFails ==
    \A t \in Threads :
        (Back(t, "sbrk") /\ call[t].size # 0 /\ declined[t]) =>
            (~ret[t].ok /\ current_brk = Some(entry[t].cur))

\* C4: canonical_brk returns a triple only when the OS was not declined and
\* the OS break was extended by size + extra_brk(size) + align.
C4_TripleOnlyWhenExtended ==
    \A t \in Threads :
        Back(t, "canonical_brk") =>
            (~declined[t] /\ program_break = entry[t].os + BrkSize(t))

\* C5: a successful sbrk(delta) returns the break that was current right before
\* the call, and the cached break is then that address plus delta.
C5_SbrkReturnsPrevious ==
    \A t \in Threads :
        (Back(t, "sbrk") /\ ret[t].ok) =>
            (/\ ret[t].ptr = entry[t].os
             /\ current_brk = Some(ret[t].ptr + call[t].size))

\* C6: in every reachable state sbrk(0) succeeds, returns the current break and
\* leaves the OS break and the cached break value as they were.
C6_SbrkZero ==
    \A t \in Threads :
        (Back(t, "sbrk") /\ call[t].size = 0) =>
            (/\ ret[t].ok
             /\ ret[t].ptr = entry[t].os
             /\ program_break = entry[t].os
             /\ current_brk = Some(entry[t].cur))

\* C7: over a sequence of canonical_brk calls, each triple is in address order
\* and every block of a later call starts at or after the end of every block
\* of an earlier call.
C7_Ordered ==
    OnlyCanonical =>
        /\ \A i \in DOMAIN blocks :
              blocks[i].pre.ptr <= blocks[i].res.ptr /\ blocks[i].res.ptr <= blocks[i].exc.ptr
        /\ \A i, j \in DOMAIN blocks :
              i < j =>
                 \A a \in {blocks[i].pre, blocks[i].res, blocks[i].exc},
                    b \in {blocks[j].pre, blocks[j].res, blocks[j].exc} :
                    BlockEnd(a) <= b.ptr

\* C8: the result block of canonical_brk(size, align), size > 0 and align a power
\* of two, starts at a multiple of align and has size `size`.
C8_ResultAligned ==
    \A t \in Threads :
        (Back(t, "canonical_brk") /\ call[t].size > 0) =>
            (ret[t].res.ptr % call[t].align = 0 /\ ret[t].res.size = call[t].size)

\* C8 witness: a returned result block that needed a precursor to be aligned
C8_Witness ==
    \E t \in Threads :
        /\ Back(t, "canonical_brk")
        /\ call[t].align = 2
        /\ ret[t].pre.size = 1
        /\ ret[t].res.size = 2

\* C9: the three blocks tile the newly broken range: the precursor starts at
\* the break before the call, each block ends where the next begins, the excess
\* ends at the new break, and the sizes add up to size + extra_brk(size) + align.
C9_Tiling ==
    \A t \in Threads :
        Back(t, "canonical_brk") =>
            (/\ ret[t].pre.ptr = entry[t].os
             /\ BlockEnd(ret[t].pre) = ret[t].res.ptr
             /\ BlockEnd(ret[t].res) = ret[t].exc.ptr
             /\ BlockEnd(ret[t].exc) = program_break
             /\ current_brk = Some(program_break)
             /\ ret[t].pre.size + ret[t].res.size + ret[t].exc.size = BrkSize(t))

\* C10: release of a block that ends at the current break returns success and
\* lowers the OS break and the cached break by the block's size.
C10_ReleaseLowers ==
    \A t \in Threads :
        (/\ Back(t, "release")
         /\ BlockEnd(call[t].block) = entry[t].os
         /\ BlockEnd(call[t].block) = entry[t].cur) =>
            (/\ ret[t].ok
             /\ program_break = entry[t].os - call[t].block.size
             /\ current_brk = Some(entry[t].cur - call[t].block.size))


\* C11: release of a block that does not end at the current break (the break
\* current_brk() gives the handle) returns a failure that carries the same
\* block, asks the OS for no move of the break and leaves the OS break and the
\* cached break value as they were.
C11_ReleaseRejected ==
    \A t \in Threads :
        (Back(t, "release") /\ BlockEnd(call[t].block) # entry[t].cur) =>
            (/\ ~ret[t].ok
             /\ ret[t].res = call[t].block
             /\ ~requested[t]
             /\ program_break = entry[t].os
             /\ current_brk = Some(entry[t].cur))

\* C11 witness: the result block of an earlier canonical_brk, which lies below
\* the break, was handed to release and came back
C11_Witness ==
    \E t \in Threads :
        /\ Back(t, "release") /\ ~ret[t].ok
        /\ Len(blocks) = 1
        /\ call[t].block = blocks[1].res
        /\ ret[t].res = blocks[1].res
        /\ BlockEnd(call[t].block) < entry[t].cur

\* C12: of two successful sbrk calls with positive deltas that follow one
\* another with no call between them, the second returns a strictly greater
\* address than the first.
C12_SbrkGrowsUp ==
    \A i \in DOMAIN sbrk_log :
        (i + 1 \in DOMAIN sbrk_log /\ sbrk_log[i + 1].n = sbrk_log[i].n + 1) =>
            sbrk_log[i + 1].ptr > sbrk_log[i].ptr

\* C16: the public sbrk returns !0 exactly when the OS declined the break
\* request of the call, and then the OS break and the cached break are what
\* they were before the call; otherwise it returns the address the locked
\* sbrk returned, the OS's previous break.
C16_ExternSbrk ==
    \A t \in Threads :
        (pc[t] = "extern_done") =>
            (/\ (ret[t].ptr = MaxPointer) <=> declined[t]
             /\ (ret[t].ptr = MaxPointer) =>
                    (/\ program_break = entry[t].os
                     /\ current_brk = Some(entry[t].cur))
             /\ (ret[t].ptr # MaxPointer) =>
                    (ret[t].ok /\ ret[t].ptr = entry[t].os))

\* C17: whenever no call is in progress and the cache is populated, the cached
\* break is the OS's program break.
C17_CacheCoherent ==
    ((\A t \in Threads : ~Adjusting(t)) /\ current_brk # None) =>
        current_brk = Some(program_break)

\* C18: the OS is asked for the current break at most once and only while the
\* cache is empty, and the cache, once populated, is never empty again.
C18_QueriedOnce ==
    /\ queries <= 1
    /\ (current_brk = None) <=> (queries = 0)

\* C18 witness: a second call went through current_brk() after the one query
C18_Witness ==
    \E t \in Threads :
        pc[t] = "sbrk_syscall" /\ ncalls = 2 /\ queries = 1 /\ entry[t].cached

Finished == search_pc \in {"done", "panicked"}

\* the needle is one of the pool's blocks
Inserted(b) == \E i \in DOMAIN pool.nodes : pool.nodes[i].block = b

\* no node of the pool matches the searcher
NoMatch == \A i \in DOMAIN pool.nodes : ~is_match(searcher, pool.nodes[i])

\* C13: a search (search or search_with, exact-address searcher) for a block
\* that is in the list succeeds, and the Seek's node holds that block,
\* whatever the heights of the towers
C13_SearchFindsInserted ==
    (Finished /\ Inserted(searcher.needle)) =>
        (/\ search_ret = "Ok"
         /\ seek.node \in DOMAIN pool.nodes
         /\ pool.nodes[seek.node].block = searcher.needle)

\* C14: a search that matches no node ends with the miss as a result value
\* in the caller's hands, for search as for search_with
C14_MissIsResult ==
    (Finished /\ NoMatch) => (search_pc = "done" /\ search_ret = "Err")

\* C19: when search_with returns Ok(seek), every level's back look cell has
\* been written, level 0 included, and holds the predecessor of the found
\* node at that level
C19_BackLookComplete ==
    (search_ret = "Ok") =>
        (/\ written = Levels
         /\ \A l \in Levels : seek.back_look[l] = Pred(pool, seek.node, l))

\* C20: from the call to its end, with a match or a miss, the pool's nodes,
\* their blocks and every shortcut of every level are what they were at the
\* call
C20_ListUnchanged == (search_pc # "idle") => pool = pool_at_call

\* a search of a full list has come back with a match, having gone down
\* from a node that is not the head
C20_Witness ==
    /\ search_pc = "done"
    /\ search_ret = "Ok"
    /\ Len(pool.nodes) >= 2
    /\ \E l \in written : seek.back_look[l] # HeadNode

Next ==
    \E t \in Threads :
        \/ lock(t)
        \/ drop(t)
        \/ \E size \in Deltas : call_sbrk(t, size)
        \/ sbrk_expected(t)
        \/ sbrk_syscall(t)
        \/ sbrk_check(t)
        \/ \E size \in Sizes, align \in Aligns : call_canonical_brk(t, size, align)
        \/ canonical_split(t)
        \/ \E block \in Releasable : call_release(t, block)
        \/ release_check(t)
        \/ release_ret(t)
        \/ \E size \in Deltas : call_extern_sbrk(t, size)
        \/ extern_unwrap(t)
        \/ extern_return(t)

Spec == Init /\ [][Next]_vars

\* what a thread that runs does next once it is inside a call or done with its
\* handle: the scheduler lets every thread run
Run(t) ==
    \/ drop(t)
    \/ sbrk_expected(t)
    \/ sbrk_syscall(t)
    \/ sbrk_check(t)
    \/ canonical_split(t)
    \/ release_check(t)
    \/ release_ret(t)
    \/ extern_unwrap(t)
    \/ extern_return(t)

\* Fair scheduling: a thread that can run does, and a thread in lock(), which
\* tries BRK_MUTEX again and again, gets it if it is free again and again.
FairSpec ==
    /\ Spec
    /\ \A t \in Threads : WF_vars(Run(t)) /\ SF_vars(lock(t))
\* ---------------------------------------------------------- the pool alone
\* any list that inserting blocks of distinct, non-overlapping ranges builds
PoolInit ==
    /\ BrkInit
    /\ \E ts \in TowerSeqs : pool = Linked(ts)
    /\ PoolIdle

PoolNext ==
    \/ \E api \in {"search", "search_with"} : \E needle \in PoolBlocks :
           call_search(api, needle)
    \/ search_with_loop
    \/ search_with_bottom
    \/ search_unwrap
    \/ search_return

PoolSpec == PoolInit /\ [][PoolNext]_vars

====
